---- MODULE Spec2Model ----
(***************************************************************************)
(* Model of SHLRecommendationEngine (final_recommend_eng.py): engine       *)
(* construction (catalog load, URL index, training index, fitted vector    *)
(* space) and the per-request recommendation pipeline.                     *)
(*                                                                         *)
(* Strings are sequences of chunks.  The chunks "/" and " " are the slash  *)
(* and the whitespace character; every other chunk is a run of characters  *)
(* holding neither, so strip, rstrip('/'), split('/') and split() act on   *)
(* chunk boundaries exactly as they act on the characters.                 *)
(* Scores are exact rationals [num, den], compared by cross multiplying.   *)
(***************************************************************************)
EXTENDS Integers, Sequences, FiniteSets, TLC

VARIABLES
    pc,                            \* position of the constructor / "ready"
    train_rows,                    \* rows of the training log not yet read
    df,                            \* self.df
    url_to_idx,                    \* self.url_to_idx
    normalized_to_actual,          \* self.normalized_to_actual
    train_queries,                 \* self.train_queries
    assessment_training_patterns,  \* self.assessment_training_patterns
    matched_count,                 \* _load_training_data: matched_count
    total_count,                   \* _load_training_data: total_count
    vectorizer,                    \* self.tfidf_matrix, self.vectorizer
    argsort_ties,                  \* how numpy's argsort orders equal keys
    set_order,                     \* iteration order of a set of category codes
    built,                         \* snapshot of the engine when it got ready
    req,                           \* the last request served
    result,                        \* what get_recommendations returned for it
    threads,                       \* requests in flight (concurrent serving)
    response                       \* what the /recommend endpoint answered

vars == <<pc, train_rows, df, url_to_idx, normalized_to_actual,
          train_queries, assessment_training_patterns, matched_count,
          total_count, vectorizer, argsort_ties, set_order, built, req, result,
          threads, response>>

engine == <<df, url_to_idx, normalized_to_actual, train_queries,
            assessment_training_patterns, vectorizer>>

-----------------------------------------------------------------------------
(* Bounds of the model *)

BigCatalog == 12
MaxTopK == 12
MaxSeed == 2

-----------------------------------------------------------------------------
(* Python helpers *)

Min2(a, b) == IF a < b THEN a ELSE b

Max2(a, b) == IF a > b THEN a ELSE b

Range(s) == {s[i] : i \in DOMAIN s}

\* s[:k], k any integer
PyTake(s, k) ==
    IF k >= 0 THEN SubSeq(s, 1, Min2(k, Len(s)))
              ELSE SubSeq(s, 1, Max2(Len(s) + k, 0))

\* s[start:], start any integer
PyFrom(s, start) ==
    IF start >= 0 THEN SubSeq(s, Min2(start, Len(s)) + 1, Len(s))
                  ELSE SubSeq(s, Max2(Len(s) + start, 0) + 1, Len(s))

\* a list built by a comprehension: the sequence with its elements evaluated
List(f) == SubSeq(f, 1, Len(f))

\* s[::-1]
PyReverse(s) == [i \in 1..Len(s) |-> s[Len(s) + 1 - i]]

\* str.lower(), chunk by chunk
LowerChunk(c) ==
    CASE c = "Java" -> "java"
      [] c = "Developer" -> "developer"
      [] c = "HTTPS:" -> "https:"
      [] c = "WWW.SHL.COM" -> "www.shl.com"
      [] c = "View" -> "view"
      [] c = "S1" -> "s1"
      [] c = "S2" -> "s2"
      [] OTHER -> c

Lower(s) == [i \in 1..Len(s) |-> LowerChunk(s[i])]

RECURSIVE LStrip(_)
LStrip(s) == IF s # <<>> /\ Head(s) = " " THEN LStrip(Tail(s)) ELSE s

RECURSIVE RStripChunk(_, _)
RStripChunk(s, c) ==
    IF s # <<>> /\ s[Len(s)] = c THEN RStripChunk(SubSeq(s, 1, Len(s) - 1), c)
                                 ELSE s

\* str.strip()
Strip(s) == RStripChunk(LStrip(s), " ")

\* str.split('/')[-1]
RECURSIVE LastPart(_)
LastPart(s) ==
    IF s = <<>> \/ s[Len(s)] = "/" THEN <<>>
    ELSE LastPart(SubSeq(s, 1, Len(s) - 1)) \o <<s[Len(s)]>>

\* str.split(): the whitespace-separated words, each a sequence of chunks
RECURSIVE SplitWords(_, _)
SplitWords(s, cur) ==
    IF s = <<>> THEN (IF cur = <<>> THEN {} ELSE {cur})
    ELSE IF Head(s) = " "
         THEN (IF cur = <<>> THEN {} ELSE {cur}) \cup SplitWords(Tail(s), <<>>)
         ELSE SplitWords(Tail(s), cur \o <<Head(s)>>)

-----------------------------------------------------------------------------
(* URL normalizer *)

CanonicalPrefix ==
    <<"https:", "/", "/", "www.shl.com", "/", "solutions", "/", "products",
      "/", "product-catalog", "/", "view", "/">>

_normalize_url(url) ==
    LET u == Lower(Strip(url))
        slug == LastPart(RStripChunk(u, "/"))
    IN  CanonicalPrefix \o slug \o <<"/">>

-----------------------------------------------------------------------------
(* Catalog data files *)

NoDuration == {}

\* the test_type value of a record of the data file: a JSON list of codes, or
\* anything that is not a list (null, a string, a key the record lacks)
JsonList(codes) == {codes}

NotAList == {}

TypeCycle == << <<"K">>, <<"P">>, <<"C">>, <<"K", "P">>, <<"A">>, <<>> >>

DurationCycle == << {30}, NoDuration, {24}, {60}, {6} >>

GenRow(i) ==
    [name |-> "n" \o ToString(i),
     url |-> CanonicalPrefix \o <<"s" \o ToString(i), "/">>,
     test_type |-> JsonList(TypeCycle[((i - 1) % Len(TypeCycle)) + 1]),
     duration |-> DurationCycle[((i - 1) % Len(DurationCycle)) + 1]]

GenCatalog(n) == [i \in 1..n |-> GenRow(i)]

\* every assessment declares a long duration
CatalogLong ==
    << [name |-> "n1", url |-> CanonicalPrefix \o <<"s1", "/">>,
        test_type |-> JsonList(<<"K">>), duration |-> {60}],
       [name |-> "n2", url |-> CanonicalPrefix \o <<"s2", "/">>,
        test_type |-> JsonList(<<"P">>), duration |-> {45}] >>

\* three spellings of one URL, one of them in three records
CatalogDup ==
    << [name |-> "n1", url |-> CanonicalPrefix \o <<"s1", "/">>,
        test_type |-> JsonList(<<"P">>), duration |-> NoDuration],
       [name |-> "n2", url |-> <<"HTTPS:", "/", "/", "WWW.SHL.COM", "/", "S1", "/">>,
        test_type |-> JsonList(<<"K">>), duration |-> {30}],
       [name |-> "n3", url |-> CanonicalPrefix \o <<"S1", "/">>,
        test_type |-> JsonList(<<"C">>), duration |-> {10}],
       [name |-> "n4", url |-> CanonicalPrefix \o <<"s1", "/">>,
        test_type |-> JsonList(<<"P">>), duration |-> NoDuration],
       [name |-> "n5", url |-> CanonicalPrefix \o <<"s1", "/">>,
        test_type |-> JsonList(<<"K">>), duration |-> {5}] >>

\* the only assessments carrying P also carry K and come last; the first
\* record has no test_type list
CatalogMulti ==
    [i \in 1..BigCatalog |->
        [name |-> "n" \o ToString(i),
         url |-> CanonicalPrefix \o <<"s" \o ToString(i), "/">>,
         test_type |-> IF i = 1 THEN NotAList
                       ELSE IF i > BigCatalog - 2 THEN JsonList(<<"K", "P">>)
                       ELSE JsonList(<<"K">>),
         duration |-> NoDuration]]

\* two records have a URL without slug: fix_url of preprocess_final.py
\* writes "/" for every raw record whose URL is blank
CatalogBlank ==
    << [name |-> "n1", url |-> <<"/">>,
        test_type |-> JsonList(<<"K">>), duration |-> {30}],
       [name |-> "n2", url |-> CanonicalPrefix \o <<"s2", "/">>,
        test_type |-> JsonList(<<"C">>), duration |-> NoDuration],
       [name |-> "n3", url |-> <<"/">>,
        test_type |-> JsonList(<<"C">>), duration |-> NoDuration],
       [name |-> "n4", url |-> CanonicalPrefix \o <<"s4", "/">>,
        test_type |-> JsonList(<<"K">>), duration |-> NoDuration],
       [name |-> "n5", url |-> CanonicalPrefix \o <<"s5", "/">>,
        test_type |-> JsonList(<<"A">>), duration |-> NoDuration],
       [name |-> "n6", url |-> CanonicalPrefix \o <<"s6", "/">>,
        test_type |-> JsonList(<<>>), duration |-> NoDuration],
       [name |-> "n7", url |-> CanonicalPrefix \o <<"s7", "/">>,
        test_type |-> JsonList(<<"P">>), duration |-> NoDuration] >>

Catalogs ==
    {CatalogLong, CatalogDup, GenCatalog(6), GenCatalog(BigCatalog),
     CatalogMulti, CatalogBlank}

-----------------------------------------------------------------------------
(* Training logs *)

Q_JavaDevHiring == <<"java", " ", "developer", " ", "hiring">>

TrainLogA ==
    << [Query |-> <<"Java", " ", "Developer", " ", "hiring", " ">>,
        Assessment_url |-> <<"https:", "/", "/", "www.shl.com", "/", "products",
                             "/", "product-catalog", "/", "view", "/", "S1">>],
       [Query |-> <<"java", " ", "team">>,
        Assessment_url |-> CanonicalPrefix \o <<"s2", "/", "/", " ">>],
       [Query |-> <<"java", " ", "developer", " ", "hiring">>,
        Assessment_url |-> CanonicalPrefix \o <<"s4", "/">>],
       [Query |-> <<"analyst">>,
        Assessment_url |-> <<" ">>],
       [Query |-> <<"analyst">>,
        Assessment_url |-> CanonicalPrefix \o <<"unknown", "/">>],
       [Query |-> <<"hiring", " ", "java", " ", "developer">>,
        Assessment_url |-> CanonicalPrefix \o <<"s5", "/">>],
       [Query |-> <<"java", " ", "developer">>,
        Assessment_url |-> CanonicalPrefix \o <<"s3", "/">>],
       [Query |-> <<"java", " ", "developer", " ", "team", " ", "lead", " ",
                    "for", " ", "a", " ", "retail", " ", "bank">>,
        Assessment_url |-> CanonicalPrefix \o <<"s6", "/">>],
       [Query |-> <<"java", " ", "developer", " ", "team", " ", "20", " ",
                    "min">>,
        Assessment_url |-> CanonicalPrefix \o <<"s4", "/">>] >>

TrainLogB ==
    << [Query |-> <<"developers", " ", "analysts", " ", "team">>,
        Assessment_url |-> CanonicalPrefix \o <<"s3", "/">>],
       [Query |-> <<"team">>,
        Assessment_url |-> CanonicalPrefix \o <<"s1", "/">>],
       [Query |-> <<"zzz">>,
        Assessment_url |-> CanonicalPrefix \o <<"s2", "/">>],
       [Query |-> <<"hiring", " ", "5", " ", "min">>,
        Assessment_url |-> CanonicalPrefix \o <<"s2", "/">>] >>

\* exists = FALSE: no training file at that path (os.path.exists fails)
TrainFiles ==
    {[exists |-> FALSE, rows |-> <<>>], [exists |-> TRUE, rows |-> <<>>],
     [exists |-> TRUE, rows |-> TrainLogA], [exists |-> TRUE, rows |-> TrainLogB]}

-----------------------------------------------------------------------------
(* Dictionaries *)

EmptyDict == [k \in {} |-> {}]

DictSet(d, k, v) == [x \in (DOMAIN d) \cup {k} |-> IF x = k THEN v ELSE d[x]]

\* defaultdict(set).__getitem__: a missing key is inserted with an empty set
DefaultDictGet(d, k) ==
    IF k \in DOMAIN d THEN [value |-> d[k], dict |-> d]
                      ELSE [value |-> {}, dict |-> DictSet(d, k, {})]

-----------------------------------------------------------------------------
(* Engine construction *)

ThreadIds == {1, 2}

IdleThread ==
    [pc |-> "idle", query |-> <<>>, top_k |-> 0, train_queries |-> EmptyDict,
     overlapped |-> FALSE, result |-> <<>>]

\* a JSON value of a request body
JsonStr(s) == [type |-> "str", str |-> s, num |-> 0]

JsonInt(n) == [type |-> "int", str |-> <<>>, num |-> n]

\* json.loads gives True and False, which Python counts as the integers 1, 0
JsonBool(b) == [type |-> "bool", str |-> <<>>, num |-> IF b THEN 1 ELSE 0]

JsonFloat == [type |-> "float", str |-> <<>>, num |-> 5]

JsonNull == [type |-> "null", str |-> <<>>, num |-> 0]

\* a request body: json is "invalid" (not JSON), "null", "array" (the array
\* ["query"]) or "object" with the keys it holds
Body(json, keys, query, top_k) ==
    [json |-> json, keys |-> keys, query |-> query, top_k |-> top_k]

NoResponse ==
    [body |-> Body("null", {}, JsonNull, JsonNull), status |-> 0,
     called |-> FALSE, count |-> 0, recommendations |-> <<>>]

Init ==
    /\ pc = "init"
    /\ train_rows = <<>>
    /\ df = <<>>
    /\ url_to_idx = EmptyDict
    /\ normalized_to_actual = EmptyDict
    /\ train_queries = EmptyDict
    /\ assessment_training_patterns = EmptyDict
    /\ matched_count = 0
    /\ total_count = 0
    /\ vectorizer = 0
    /\ argsort_ties = "stable"
    /\ set_order = <<>>
    /\ built = <<>>
    /\ req = [query |-> <<>>, top_k |-> 0]
    /\ result = <<>>
    /\ threads = [t \in ThreadIds |-> IdleThread]
    /\ response = NoResponse

\* df['test_type'].apply(lambda x: x if isinstance(x, list) else [])
LoadedTestType(x) == IF x = NotAList THEN <<>> ELSE CHOOSE codes \in x : TRUE

\* __init__: self.df = self._load_data(data_file)
_load_data ==
    /\ pc = "init"
    /\ \E data \in Catalogs :
          df' = List([i \in 1..Len(data) |->
                        [data[i] EXCEPT !.test_type = LoadedTestType(@)]])
    /\ pc' = "index"
    /\ UNCHANGED <<train_rows, url_to_idx, normalized_to_actual, train_queries,
                   assessment_training_patterns, matched_count, total_count,
                   vectorizer, argsort_ties, set_order, built, req, result,
                   threads, response>>

\* the two dictionaries after the rows 1..i were indexed: of the rows with
\* one key, the last one wrote the entry that stays
UrlIndexUpTo(rows, i) ==
    LET actual_url == List([j \in 1..i |-> Lower(rows[j].url)])
        normalized_url == List([j \in 1..i |-> _normalize_url(actual_url[j])])
        last(keys, k) == CHOOSE j \in 1..i :
                             /\ keys[j] = k
                             /\ \A later \in (j + 1)..i : keys[later] # k
    IN  [url_to_idx |->
             [k \in Range(actual_url) |-> last(actual_url, k)],
         normalized_to_actual |->
             [k \in Range(normalized_url) |->
                 actual_url[last(normalized_url, k)]]]

\* __init__: self._build_url_index(), then the training file is opened
_build_url_index ==
    /\ pc = "index"
    /\ url_to_idx' = UrlIndexUpTo(df, Len(df)).url_to_idx
    /\ normalized_to_actual' = UrlIndexUpTo(df, Len(df)).normalized_to_actual
    /\ \E train_file \in TrainFiles :
          IF train_file.exists
          THEN /\ train_rows' = train_file.rows
               /\ total_count' = Len(train_file.rows)
               /\ pc' = "training"
          ELSE /\ train_rows' = <<>>
               /\ total_count' = 0
               /\ pc' = "tfidf"
    /\ UNCHANGED <<df, train_queries, assessment_training_patterns,
                   matched_count, vectorizer, argsort_ties, set_order, built,
                   req, result, threads, response>>

\* the loop body matching the training URL as written, not normalized
LoadTrainingRow_ExactUrl ==
    /\ pc = "training"
    /\ train_rows # <<>>
    /\ LET row == Head(train_rows)
           query == Strip(Lower(row.Query))
           train_url == Strip(row.Assessment_url)
       IN  IF Lower(train_url) \in DOMAIN url_to_idx
           THEN LET actual_url == Lower(train_url)
                IN  /\ train_queries' =
                          DictSet(train_queries, query,
                                  DefaultDictGet(train_queries, query).value
                                      \cup {actual_url})
                    /\ assessment_training_patterns' =
                          DictSet(assessment_training_patterns, actual_url,
                                  DefaultDictGet(assessment_training_patterns,
                                                 actual_url).value \cup {query})
                    /\ matched_count' = matched_count + 1
           ELSE UNCHANGED <<train_queries, assessment_training_patterns,
                            matched_count>>
    /\ train_rows' = Tail(train_rows)
    /\ UNCHANGED <<pc, df, url_to_idx, normalized_to_actual, total_count,
                   vectorizer, argsort_ties, set_order, built, req, result,
                   threads, response>>

\* the loop body without line 94: the row is entered in train_queries only
LoadTrainingRow_OneWay ==
    /\ pc = "training"
    /\ train_rows # <<>>
    /\ LET row == Head(train_rows)
           query == Strip(Lower(row.Query))
           train_url == Strip(row.Assessment_url)
           normalized == _normalize_url(train_url)
       IN  IF normalized \in DOMAIN normalized_to_actual
           THEN LET actual_url == normalized_to_actual[normalized]
                IN  /\ train_queries' =
                          DictSet(train_queries, query,
                                  DefaultDictGet(train_queries, query).value
                                      \cup {actual_url})
                    /\ matched_count' = matched_count + 1
                    /\ UNCHANGED assessment_training_patterns
           ELSE UNCHANGED <<train_queries, assessment_training_patterns,
                            matched_count>>
    /\ train_rows' = Tail(train_rows)
    /\ UNCHANGED <<pc, df, url_to_idx, normalized_to_actual, total_count,
                   vectorizer, argsort_ties, set_order, built, req, result,
                   threads, response>>

\* _load_training_data: one iteration of the loop over the rows
LoadTrainingRow ==
    /\ pc = "training"
    /\ train_rows # <<>>
    /\ LET row == Head(train_rows)
           query == Strip(Lower(row.Query))
           train_url == Strip(row.Assessment_url)
           normalized == _normalize_url(train_url)
       IN  IF normalized \in DOMAIN normalized_to_actual
           THEN LET actual_url == normalized_to_actual[normalized]
                IN  /\ train_queries' =
                          DictSet(train_queries, query,
                                  DefaultDictGet(train_queries, query).value
                                      \cup {actual_url})
                    /\ assessment_training_patterns' =
                          DictSet(assessment_training_patterns, actual_url,
                                  DefaultDictGet(assessment_training_patterns,
                                                 actual_url).value \cup {query})
                    /\ matched_count' = matched_count + 1
           ELSE UNCHANGED <<train_queries, assessment_training_patterns,
                            matched_count>>
    /\ train_rows' = Tail(train_rows)
    /\ UNCHANGED <<pc, df, url_to_idx, normalized_to_actual, total_count,
                   vectorizer, argsort_ties, set_order, built, req, result,
                   threads, response>>

\* _load_training_data after the loop: the summary divides by total_count
TrainingSummary ==
    /\ pc = "training"
    /\ train_rows = <<>>
    /\ pc' = IF total_count = 0 THEN "ZeroDivisionError" ELSE "tfidf"
    /\ UNCHANGED <<train_rows, df, url_to_idx, normalized_to_actual,
                   train_queries, assessment_training_patterns, matched_count,
                   total_count, vectorizer, argsort_ties, set_order, built,
                   req, result, threads, response>>

\* Iteration orders a Python set of category codes can have in one process
SetOrders ==
    {<<"P", "K", "C">>, <<"P", "C", "K">>, <<"K", "P", "C">>,
     <<"K", "C", "P">>, <<"C", "P", "K">>, <<"C", "K", "P">>}

\* __init__: self.tfidf_matrix, self.vectorizer = self._build_tfidf_index()
_build_tfidf_index ==
    /\ pc = "tfidf"
    /\ \E seed \in 0..MaxSeed : vectorizer' = seed
    /\ \E ties \in {"stable", "reversed"} : argsort_ties' = ties
    /\ \E order \in SetOrders : set_order' = order
    /\ built' = <<df, url_to_idx, normalized_to_actual, train_queries,
                  assessment_training_patterns, vectorizer'>>
    /\ pc' = "ready"
    /\ UNCHANGED <<train_rows, df, url_to_idx, normalized_to_actual,
                   train_queries, assessment_training_patterns, matched_count,
                   total_count, req, result, threads, response>>

-----------------------------------------------------------------------------
(* Query feature extractor *)

\* <<c, k>>: keyword k occurs inside chunk c without being the whole of it
ProperSubstring ==
    {<<"teams", "team">>, <<"developers", "developer">>,
     <<"analysts", "analyst">>, <<"minutes", "min">>, <<"minutes", "minute">>,
     <<"minute", "min">>, <<"mins", "min">>}

Contains(c, k) == c = k \/ <<c, k>> \in ProperSubstring

\* chunk c starts with k (every pair of ProperSubstring is a prefix pair)
StartsWith(c, k) == c = k \/ <<c, k>> \in ProperSubstring

\* the digit runs of the model's queries and their values
NumberChunks == {"0", "5", "20", "020"}

IntOf(c) ==
    CASE c = "0" -> 0
      [] c = "5" -> 5
      [] c = "20" -> 20
      [] c = "020" -> 20

\* any(kw in query_lower for kw in keywords), keywords of one word
AnyKeywordIn(keywords, q) ==
    \E i \in 1..Len(q) : \E k \in keywords : Contains(q[i], k)

\* kw in query_lower for a keyword of two words
PhraseIn(a, b, q) ==
    \E i \in 1..Len(q) :
        /\ i + 2 <= Len(q)
        /\ q[i] = a
        /\ q[i + 1] = " "
        /\ StartsWith(q[i + 2], b)

collaboration_keywords ==
    {"collaborate", "collaboration", "collaborative", "communicate",
     "communication", "interpersonal", "team", "teamwork", "stakeholder",
     "personality", "behavioral"}

collaboration_phrases ==
    {<<"business", "teams">>, <<"work", "with">>, <<"interact", "with">>,
     <<"soft", "skills">>, <<"people", "skills">>}

technical_keywords ==
    {"technical", "coding", "programming", "developer", "engineer"}

cognitive_keywords == {"cognitive", "analytical", "reasoning", "analyst"}

\* index of the first chunk after position i that is not whitespace, or 0
RECURSIVE SkipSpaces(_, _)
SkipSpaces(q, i) ==
    IF i > Len(q) THEN 0
    ELSE IF q[i] = " " THEN SkipSpaces(q, i + 1) ELSE i

\* re.search(r'(\d+)\s*(?:min|minute)', query_lower) matches at chunk i
DurationMatchAt(q, i) ==
    /\ q[i] \in NumberChunks
    /\ SkipSpaces(q, i + 1) # 0
    /\ StartsWith(q[SkipSpaces(q, i + 1)], "min")

\* the keys of tech_patterns, in the order of the dict
tech_patterns ==
    <<"java", "javascript", "python", "sql", "selenium", "excel", "html",
      "css">>

\* re.search(tech_patterns[tech], query_lower).  WordAt: \b before chunk i
\* and after it (chunks are words, digits or whitespace); ScriptFollows:
\* \s*script comes after chunk i
TechnologyIn(tech, q) ==
    LET WordAt(i) == /\ i = 1 \/ q[i - 1] = " "
                     /\ i = Len(q) \/ q[i + 1] = " "
        ScriptFollows(i) == /\ SkipSpaces(q, i + 1) # 0
                            /\ q[SkipSpaces(q, i + 1)] = "script"
    IN  CASE tech = "java" ->
                 \E i \in 1..Len(q) :
                     q[i] = "java" /\ WordAt(i) /\ ~ScriptFollows(i)
          [] tech = "javascript" ->
                 \E i \in 1..Len(q) :
                     \/ q[i] = "javascript"
                     \/ q[i] = "java" /\ ScriptFollows(i)
                     \/ q[i] = "js" /\ (i = Len(q) \/ q[i + 1] = " ")
          [] OTHER -> \E i \in 1..Len(q) : q[i] = tech /\ WordAt(i)

\* the flag set by the one-word keywords only, P added by the phrases too
_extract_query_features_flag_by_word(query) ==
    LET query_lower == Lower(query)
        found(tech) == TechnologyIn(tech, query_lower)
        soft == \/ AnyKeywordIn(collaboration_keywords, query_lower)
                \/ \E ph \in collaboration_phrases :
                       PhraseIn(ph[1], ph[2], query_lower)
        matches == {i \in 1..Len(query_lower) : DurationMatchAt(query_lower, i)}
        first == CHOOSE i \in matches : \A j \in matches : i <= j
    IN  [technologies |-> SelectSeq(tech_patterns, found),
         skills |-> IF soft THEN <<"collaboration", "communication">>
                    ELSE <<>>,
         test_categories |->
             (IF soft THEN {"P"} ELSE {})
             \cup (IF AnyKeywordIn(technical_keywords, query_lower)
                   THEN {"K"} ELSE {})
             \cup (IF AnyKeywordIn(cognitive_keywords, query_lower)
                   THEN {"C"} ELSE {}),
         soft_skills_required |->
             AnyKeywordIn(collaboration_keywords, query_lower),
         duration_max |-> IF matches = {} THEN {}
                          ELSE {IntOf(query_lower[first])}]

\* the features the pipeline or the claims read; experience_level is never
\* set and is left out
_extract_query_features(query) ==
    LET query_lower == Lower(query)
        found(tech) == TechnologyIn(tech, query_lower)
        soft == \/ AnyKeywordIn(collaboration_keywords, query_lower)
                \/ \E ph \in collaboration_phrases :
                       PhraseIn(ph[1], ph[2], query_lower)
        matches == {i \in 1..Len(query_lower) : DurationMatchAt(query_lower, i)}
        first == CHOOSE i \in matches : \A j \in matches : i <= j
    IN  [technologies |-> SelectSeq(tech_patterns, found),
         skills |-> IF soft THEN <<"collaboration", "communication">>
                    ELSE <<>>,
         test_categories |->
             (IF soft THEN {"P"} ELSE {})
             \cup (IF AnyKeywordIn(technical_keywords, query_lower)
                   THEN {"K"} ELSE {})
             \cup (IF AnyKeywordIn(cognitive_keywords, query_lower)
                   THEN {"C"} ELSE {}),
         soft_skills_required |-> soft,
         duration_max |-> IF matches = {} THEN {}
                          ELSE {IntOf(query_lower[first])}]

-----------------------------------------------------------------------------
(* Fitted vector space.  TF-IDF weights and the cosine are computed by the   *)
(* library; the model keeps what the pipeline relies on: one similarity in   *)
(* [0, 1] per assessment, fixed by the fitted space and the query text,      *)
(* which is 0 for every assessment when no term of the query is in the       *)
(* vocabulary.  Similarities are in units of 1/10000.                        *)

SimLevels == <<0, 1, 3, 2500>>

\* chunks the vectorizer's token pattern or vocabulary leaves out
OutOfVocabulary == NumberChunks \cup {" ", "zzz"}

cosine_similarity(space, query, idx) ==
    IF \A i \in 1..Len(query) : Lower(query)[i] \in OutOfVocabulary
    THEN 0
    ELSE SimLevels[((space * idx + Len(query)) % Len(SimLevels)) + 1]

-----------------------------------------------------------------------------
(* Training boost *)

Score(n, d) == [num |-> n, den |-> d]

Less(a, b) == a.num * b.den < b.num * a.den

NormalizedSet(urls) == {_normalize_url(u) : u \in urls}

Jaccard(a, b) == Score(Cardinality(a \cap b), Cardinality(a \cup b))

\* best_similarity after the loop over self.train_queries.items()
BestSimilarity(tq, query_terms, norm_query_url) ==
    LET sims == {Jaccard(query_terms, SplitWords(tquery, <<>>)) :
                    tquery \in {t \in DOMAIN tq :
                                   /\ norm_query_url \in NormalizedSet(tq[t])
                                   /\ query_terms # {}
                                   /\ SplitWords(t, <<>>) # {}}}
    IN  IF sims = {} THEN Score(0, 1)
        ELSE CHOOSE m \in sims : \A o \in sims : ~Less(m, o)

\* the fuzzy boost given from similarity 0.3 on
_calculate_training_boost_inclusive(tq, query, url, base_score) ==
    LET query_lower == Strip(Lower(query))
        url_lower == Strip(Lower(url))
        norm_query_url == _normalize_url(url_lower)
        query_terms == SplitWords(query_lower, <<>>)
        best_similarity == BestSimilarity(tq, query_terms, norm_query_url)
    IN  IF /\ query_lower \in DOMAIN tq
           /\ norm_query_url \in NormalizedSet(tq[query_lower])
        THEN Score(base_score * 1000, 1)
        ELSE IF ~Less(best_similarity, Score(3, 10))
             THEN Score(base_score * (best_similarity.den
                                      + best_similarity.num * 100),
                        best_similarity.den)
             ELSE Score(base_score, 1)

\* the exact-match multiplier weaker than the fuzzy one
_calculate_training_boost_weak(tq, query, url, base_score) ==
    LET query_lower == Strip(Lower(query))
        url_lower == Strip(Lower(url))
        norm_query_url == _normalize_url(url_lower)
        query_terms == SplitWords(query_lower, <<>>)
        best_similarity == BestSimilarity(tq, query_terms, norm_query_url)
    IN  IF /\ query_lower \in DOMAIN tq
           /\ norm_query_url \in NormalizedSet(tq[query_lower])
        THEN Score(base_score * 100, 1)
        ELSE IF Less(Score(3, 10), best_similarity)
             THEN Score(base_score * (best_similarity.den
                                      + best_similarity.num * 100),
                        best_similarity.den)
             ELSE Score(base_score, 1)

\* the exact-match boost added to the score instead of multiplying it
_calculate_training_boost_additive(tq, query, url, base_score) ==
    LET query_lower == Strip(Lower(query))
        url_lower == Strip(Lower(url))
        norm_query_url == _normalize_url(url_lower)
        query_terms == SplitWords(query_lower, <<>>)
        best_similarity == BestSimilarity(tq, query_terms, norm_query_url)
    IN  IF /\ query_lower \in DOMAIN tq
           /\ norm_query_url \in NormalizedSet(tq[query_lower])
        THEN Score(base_score + 1000, 1)
        ELSE IF Less(Score(3, 10), best_similarity)
             THEN Score(base_score * (best_similarity.den
                                      + best_similarity.num * 100),
                        best_similarity.den)
             ELSE Score(base_score, 1)

_calculate_training_boost(tq, query, url, base_score) ==
    LET query_lower == Strip(Lower(query))
        url_lower == Strip(Lower(url))
        norm_query_url == _normalize_url(url_lower)
        query_terms == SplitWords(query_lower, <<>>)
        best_similarity == BestSimilarity(tq, query_terms, norm_query_url)
    IN  IF /\ query_lower \in DOMAIN tq
           /\ norm_query_url \in NormalizedSet(tq[query_lower])
        THEN Score(base_score * 1000, 1)
        ELSE IF Less(Score(3, 10), best_similarity)
             THEN Score(base_score * (best_similarity.den
                                      + best_similarity.num * 100),
                        best_similarity.den)
             ELSE Score(base_score, 1)

\* the lookup made without the membership test
TrainQueriesAfterBoost_Unguarded(tq, query) ==
    DefaultDictGet(tq, Strip(Lower(query))).dict

\* self.train_queries after the lookups of _calculate_training_boost
TrainQueriesAfterBoost(tq, query) ==
    LET query_lower == Strip(Lower(query))
    IN  IF query_lower \in DOMAIN tq
        THEN DefaultDictGet(tq, query_lower).dict
        ELSE tq

-----------------------------------------------------------------------------
(* Category balancer *)

Bucket(r) ==
    IF "K" \in Range(r.test_type) THEN "K"
    ELSE IF "P" \in Range(r.test_type) THEN "P"
    ELSE IF "C" \in Range(r.test_type) THEN "C"
    ELSE IF "A" \in Range(r.test_type) THEN "A"
    ELSE "Other"

\* [x for x in s if x in keep]
FilterSeq(s, keep) ==
    LET kept(x) == x \in keep
    IN  SelectSeq(s, kept)

\* by_category[cat] after the loop over results
by_category(results, cat) ==
    LET in_bucket(r) == Bucket(r) = cat
    IN  SelectSeq(results, in_bucket)

\* by_category as a plain dict: a category with no candidate is a KeyError
BucketLookup_KeyError(results, cat) ==
    [raised |-> IF by_category(results, cat) = <<>> THEN {"KeyError"} ELSE {},
     value |-> by_category(results, cat)]

\* by_category[cat]: by_category is a defaultdict(list), so a category with
\* no candidate yields an empty list and no KeyError
BucketLookup(results, cat) ==
    [raised |-> {}, value |-> by_category(results, cat)]

\* a // b
FloorDiv(a, b) ==
    [raised |-> IF b = 0 THEN {"ZeroDivisionError"} ELSE {},
     value |-> IF b = 0 THEN 0 ELSE a \div b]

Urls(recs) == {recs[i].url : i \in 1..Len(recs)}

\* for result in seq: if result['url'] not in used_urls and added < limit:
\*     balanced.append(result); added += 1      (used_urls = Urls(balanced))
RECURSIVE FillFrom(_, _, _, _)
FillFrom(balanced, seq, limit, added) ==
    IF seq = <<>> THEN balanced
    ELSE IF Head(seq).url \notin Urls(balanced) /\ added < limit
         THEN FillFrom(Append(balanced, Head(seq)), Tail(seq), limit, added + 1)
         ELSE FillFrom(balanced, Tail(seq), limit, added)

\* for cat in required_categories: ...   (cats: the set's iteration order)
RECURSIVE FillCategories(_, _, _, _, _)
FillCategories(balanced, results, cats, soft_skills_required, slots_per_cat) ==
    IF cats = <<>> THEN balanced
    ELSE IF Head(cats) = "P" /\ soft_skills_required
         THEN FillCategories(balanced, results, Tail(cats),
                             soft_skills_required, slots_per_cat)
         ELSE FillCategories(
                  FillFrom(balanced, BucketLookup(results, Head(cats)).value,
                           slots_per_cat, 0),
                  results, Tail(cats), soft_skills_required, slots_per_cat)

\* the backfill without the test of used_urls
RECURSIVE FillTop_NoSkip(_, _, _)
FillTop_NoSkip(balanced, seq, top_k) ==
    IF seq = <<>> \/ Len(balanced) >= top_k THEN balanced
    ELSE FillTop_NoSkip(Append(balanced, Head(seq)), Tail(seq), top_k)

\* for result in results: if len(balanced) >= top_k: break; ...
RECURSIVE FillTop(_, _, _)
FillTop(balanced, seq, top_k) ==
    IF seq = <<>> \/ Len(balanced) >= top_k THEN balanced
    ELSE IF Head(seq).url \notin Urls(balanced)
         THEN FillTop(Append(balanced, Head(seq)), Tail(seq), top_k)
         ELSE FillTop(balanced, Tail(seq), top_k)

\* the slot budget taken from top_k, the reserved records not deducted
_balance_by_category_budget_of_top_k(results, required_categories, soft_skills_required, top_k, order) ==
    IF Cardinality(required_categories) <= 1 /\ ~soft_skills_required
    THEN PyTake(results, top_k)
    ELSE
      LET P == BucketLookup(results, "P").value
          personality_count == Min2(Min2(3, Len(P)), FloorDiv(top_k, 3).value)
          reserved ==
              IF soft_skills_required /\ "P" \in required_categories
              THEN FillFrom(<<>>, PyTake(P, personality_count), Len(P), 0)
              ELSE <<>>
          remaining == top_k - Len(reserved)
          slots_per_cat ==
              Max2(2, FloorDiv(top_k,
                               Max2(1, Cardinality(required_categories))).value)
          filled ==
              FillCategories(reserved, results,
                             FilterSeq(order, required_categories),
                             soft_skills_required, slots_per_cat)
      IN  PyTake(FillTop(filled, results, top_k), top_k)

_balance_by_category(results, required_categories, soft_skills_required, top_k, order) ==
    IF Cardinality(required_categories) <= 1 /\ ~soft_skills_required
    THEN PyTake(results, top_k)
    ELSE
      LET P == BucketLookup(results, "P").value
          personality_count == Min2(Min2(3, Len(P)), FloorDiv(top_k, 3).value)
          reserved ==
              IF soft_skills_required /\ "P" \in required_categories
              THEN FillFrom(<<>>, PyTake(P, personality_count), Len(P), 0)
              ELSE <<>>
          remaining == top_k - Len(reserved)
          slots_per_cat ==
              Max2(2, FloorDiv(remaining,
                               Max2(1, Cardinality(required_categories))).value)
          filled ==
              FillCategories(reserved, results,
                             FilterSeq(order, required_categories),
                             soft_skills_required, slots_per_cat)
      IN  PyTake(FillTop(filled, results, top_k), top_k)

\* the exceptions a call of _balance_by_category raises
BalanceRaises(results, required_categories, soft_skills_required, top_k) ==
    IF Cardinality(required_categories) <= 1 /\ ~soft_skills_required
    THEN {}
    ELSE (IF soft_skills_required /\ "P" \in required_categories
          THEN BucketLookup(results, "P").raised \cup FloorDiv(top_k, 3).raised
          ELSE {})
         \cup FloorDiv(top_k, Max2(1, Cardinality(required_categories))).raised
         \cup UNION {BucketLookup(results, cat).raised :
                        cat \in {c \in required_categories :
                                    ~(c = "P" /\ soft_skills_required)}}

-----------------------------------------------------------------------------
(* Recommendation pipeline *)

PoolSize == 100
MinResults == 5
HardCap == 10

\* the indices ordered by their ranks: position p holds the index of rank p
ByRank(rank) ==
    List([p \in 1..Len(rank) |-> CHOOSE i \in 1..Len(rank) : rank[i] = p])

\* boosted_scores.sort(key=lambda x: x[1], reverse=True): stable, so equal
\* scores keep the order of their indices
SortByScore(boosted) ==
    LET n == Len(boosted)
        before(i, j) == \/ Less(boosted[j], boosted[i])
                        \/ (~Less(boosted[i], boosted[j]) /\ i < j)
    IN  ByRank(List([i \in 1..n |->
                1 + Cardinality({j \in 1..n : j # i /\ before(j, i)})]))

\* similarities.argsort(): ascending; the order of equal values is the
\* library's choice
argsort(similarities, ties) ==
    LET n == Len(similarities)
        before(i, j) ==
            \/ similarities[i] < similarities[j]
            \/ /\ similarities[i] = similarities[j]
               /\ IF ties = "stable" THEN i < j ELSE j < i
    IN  ByRank(List([i \in 1..n |->
                1 + Cardinality({j \in 1..n : j # i /\ before(j, i)})]))

\* the record built for a catalog row; description and the two support
\* flags are copied from the row like name and are left out
Record(rows, idx, score) ==
    [name |-> rows[idx].name,
     url |-> rows[idx].url,
     duration |-> rows[idx].duration,
     test_type |-> rows[idx].test_type,
     score |-> score]

\* the duration rule of the candidate loop: the row is skipped
DurationExcluded(row, duration_max) ==
    /\ duration_max # {} /\ duration_max # {0}
    /\ row.duration # NoDuration
    /\ \E d \in row.duration : \E m \in duration_max : 5 * d > 6 * m

Similarities(e, query) ==
    List([i \in 1..Len(e.df) |-> cosine_similarity(e.vectorizer, query, i)])

BoostedScores(e, query, similarities) ==
    List([i \in 1..Len(e.df) |->
            _calculate_training_boost(e.train_queries, query, e.df[i].url,
                                      similarities[i])])

\* the whole sorted list, without the cut
Pool_Uncut(boosted) == SortByScore(boosted)

\* boosted_scores[:100] after the sort, as catalog indices
Pool(boosted) == PyTake(SortByScore(boosted), PoolSize)

Candidates(e, features, boosted, pool) ==
    LET kept == FilterSeq(pool,
                    {i \in 1..Len(e.df) :
                        ~DurationExcluded(e.df[i], features.duration_max)})
    IN  List([p \in 1..Len(kept) |-> Record(e.df, kept[p], boosted[kept[p]])])

Balanced(e, features, candidates, top_k) ==
    IF \/ Cardinality(features.test_categories) > 1
       \/ features.soft_skills_required
    THEN _balance_by_category(candidates, features.test_categories,
                              features.soft_skills_required, top_k,
                              e.set_order)
    ELSE PyTake(candidates, top_k)

\* the last tier without the reversal of the slice
LastResort_Ascending(e, similarities, top_k) ==
    LET top_indices == PyFrom(argsort(similarities, e.argsort_ties), -top_k)
    IN  List([p \in 1..Len(top_indices) |->
                Record(e.df, top_indices[p],
                       Score(similarities[top_indices[p]], 1))])

LastResort(e, similarities, top_k) ==
    LET top_indices ==
            PyReverse(PyFrom(argsort(similarities, e.argsort_ties), -top_k))
    IN  List([p \in 1..Len(top_indices) |->
                Record(e.df, top_indices[p],
                       Score(similarities[top_indices[p]], 1))])

\* the fallback without its last tier
Fallback_NoLastResort(e, similarities, candidates, balanced, top_k) ==
    IF Len(balanced) < MinResults
    THEN PyTake(candidates, Max2(MinResults, top_k))
    ELSE balanced

\* the under-5 step refilling from the whole catalog instead of the candidates
Fallback_RefillFromCatalog(e, similarities, candidates, balanced, top_k) ==
    IF Len(balanced) < MinResults
    THEN LastResort(e, similarities, Max2(MinResults, top_k))
    ELSE balanced

\* results after the two fallback steps
Fallback(e, similarities, candidates, balanced, top_k) ==
    LET results == IF Len(balanced) < MinResults
                   THEN PyTake(candidates, Max2(MinResults, top_k))
                   ELSE balanced
    IN  IF results = <<>> /\ candidates # <<>>
        THEN PyTake(candidates, top_k)
        ELSE IF results = <<>>
             THEN LastResort(e, similarities, top_k)
             ELSE results

\* return results
Truncate_Uncapped(results) == results

\* return results[:10]
Truncate(results) == PyTake(results, HardCap)

\* the exceptions a call of get_recommendations raises
Raises(features, candidates, top_k) ==
    IF \/ Cardinality(features.test_categories) > 1
       \/ features.soft_skills_required
    THEN BalanceRaises(candidates, features.test_categories,
                       features.soft_skills_required, top_k)
    ELSE {}

\* get_recommendations up to the duration filter, which top_k plays no part in
Scored(e, query) ==
    LET features == _extract_query_features(query)
        similarities == Similarities(e, query)
        boosted == BoostedScores(e, query, similarities)
        pool == Pool(boosted)
        candidates == Candidates(e, features, boosted, pool)
    IN  [features |-> features,
         similarities |-> similarities,
         boosted |-> boosted,
         pool |-> pool,
         candidates |-> candidates]

\* get_recommendations from the balancing on
Selected(e, scored, top_k) ==
    LET balanced == Balanced(e, scored.features, scored.candidates, top_k)
        results == Fallback(e, scored.similarities, scored.candidates,
                            balanced, top_k)
    IN  [features |-> scored.features,
         similarities |-> scored.similarities,
         boosted |-> scored.boosted,
         pool |-> scored.pool,
         candidates |-> scored.candidates,
         balanced |-> balanced,
         raised |-> Raises(scored.features, scored.candidates, top_k),
         recs |-> Truncate(results)]

\* one call of get_recommendations: its local variables, the exceptions it
\* raises and the list it returns (recs)
Call(e, query, top_k) == Selected(e, Scored(e, query), top_k)

get_recommendations(e, query, top_k) == Call(e, query, top_k).recs

-----------------------------------------------------------------------------
(* Requests *)

Q_HiringJavaDev == <<"hiring", " ", "java", " ", "developer">>

Q_JavaDevTeam20 ==
    <<"Java", " ", "developer", " ", "team", " ", "20", " ", "min">>

Q_DevAnalyst == <<"developer", " ", "analyst">>

Q_Unknown == <<"zzz">>

Q_Analyst0 == <<"analyst", " ", "0", " ", "minutes">>

Q_Teams5 == <<"teams", " ", "5", "min">>

Q_DevAnalystsTeam == <<"developers", " ", "analysts", " ", "team">>

Q_Unknown5 == <<"zzz", " ", "5", " ", "minutes">>

Q_Blank == <<" ">>

Q_Hiring5 == <<"hiring", " ", "5", " ", "min">>

Queries ==
    {Q_JavaDevHiring, Q_HiringJavaDev, Q_JavaDevTeam20, Q_DevAnalyst,
     Q_Unknown, Q_Analyst0, Q_Teams5, Q_DevAnalystsTeam, Q_Unknown5, Q_Blank,
     Q_Hiring5}

TopKs == (-2)..MaxTopK

Engine ==
    [df |-> df, train_queries |-> train_queries, vectorizer |-> vectorizer,
     argsort_ties |-> argsort_ties, set_order |-> set_order]

\* one call of get_recommendations on the engine as built
Recommend ==
    /\ pc = "ready"
    /\ \E query \in Queries :
          \E scored \in {Scored(Engine, query)} :
              \E top_k \in TopKs :
                 /\ req' = [query |-> query, top_k |-> top_k]
                 /\ result' = Selected(Engine, scored, top_k)
                 /\ train_queries' = TrainQueriesAfterBoost(train_queries, query)
    /\ pc' = "served"
    /\ UNCHANGED <<train_rows, df, url_to_idx, normalized_to_actual,
                   assessment_training_patterns, matched_count, total_count,
                   vectorizer, argsort_ties, set_order, built, threads,
                   response>>

Next ==
    \/ _load_data
    \/ _build_url_index
    \/ LoadTrainingRow
    \/ TrainingSummary
    \/ _build_tfidf_index
    \/ Recommend

Spec == Init /\ [][Next]_vars

-----------------------------------------------------------------------------
(* Concurrent requests: each thread of the server runs get_recommendations; *)
(* a call reads the training index while it scores and the catalog while it *)
(* selects, and other threads run between the two.                          *)

ConcQueries == {Q_JavaDevHiring, Q_JavaDevTeam20}

ConcTopKs == {HardCap}

\* lines 332-359: features, similarities, boosted scores
BeginRequest(t) ==
    /\ pc = "ready"
    /\ threads[t].pc # "scored"
    /\ \E query \in ConcQueries : \E top_k \in ConcTopKs :
          /\ threads' =
                [threads EXCEPT
                    ![t] = [pc |-> "scored", query |-> query, top_k |-> top_k,
                            train_queries |-> train_queries,
                            overlapped |-> \E o \in ThreadIds :
                                               threads[o].pc = "scored",
                            result |-> <<>>]]
          /\ train_queries' = TrainQueriesAfterBoost(train_queries, query)
    /\ UNCHANGED <<pc, train_rows, df, url_to_idx, normalized_to_actual,
                   assessment_training_patterns, matched_count, total_count,
                   vectorizer, argsort_ties, set_order, built, req, result,
                   response>>

\* lines 361-419: candidates, balancing, fallback, return
FinishRequest(t) ==
    /\ pc = "ready"
    /\ threads[t].pc = "scored"
    /\ threads' =
          [threads EXCEPT
              ![t].pc = "done",
              ![t].result =
                  Call([Engine EXCEPT !.train_queries = threads[t].train_queries],
                       threads[t].query, threads[t].top_k).recs]
    /\ UNCHANGED <<pc, train_rows, df, url_to_idx, normalized_to_actual,
                   train_queries, assessment_training_patterns, matched_count,
                   total_count, vectorizer, argsort_ties, set_order, built,
                   req, result, response>>

NextConc ==
    \/ _load_data
    \/ _build_url_index
    \/ LoadTrainingRow
    \/ TrainingSummary
    \/ _build_tfidf_index
    \/ \E t \in ThreadIds : BeginRequest(t)
    \/ \E t \in ThreadIds : FinishRequest(t)

SpecConc == Init /\ [][NextConc]_vars

-----------------------------------------------------------------------------
(* The /recommend endpoint (api.py): validation of the request body, the    *)
(* call of the engine, the status of the answer.                            *)

QueryValues ==
    {JsonStr(<<>>), JsonStr(<<" ">>), JsonStr(Q_JavaDevHiring),
     JsonStr(Q_Teams5), JsonInt(5), JsonNull}

TopKValues ==
    {JsonInt(n) : n \in {-1, 0, 1, 5, HardCap, HardCap + 1}}
        \cup {JsonBool(TRUE), JsonBool(FALSE), JsonFloat, JsonStr(<<"5">>),
              JsonNull}

Bodies ==
    {Body("invalid", {}, JsonNull, JsonNull),
     Body("null", {}, JsonNull, JsonNull),
     Body("array", {}, JsonNull, JsonNull),
     Body("object", {}, JsonNull, JsonNull)}
        \cup {Body("object", {"query"}, q, JsonNull) : q \in QueryValues}
        \cup {Body("object", {"top_k"}, JsonNull, k) : k \in TopKValues}
        \cup {Body("object", {"query", "top_k"}, q, k) :
                  q \in QueryValues, k \in TopKValues}

\* an answer made without calling the engine
Rejected(status) ==
    [status |-> status, called |-> FALSE, count |-> 0,
     recommendations |-> <<>>]

\* the handler, line by line: what it answers to a body
Answer(e, body) ==
    IF body.json = "invalid"
    THEN Rejected(500)          \* request.get_json() raises
    ELSE IF \/ body.json = "null"
            \/ body.json = "object" /\ body.keys = {}
            \/ body.json = "object" /\ "query" \notin body.keys
    THEN Rejected(400)          \* not data or 'query' not in data
    ELSE IF body.json = "array"
    THEN Rejected(500)          \* data['query'] on a list: TypeError
    ELSE
      LET query == body.query
          top_k == IF "top_k" \in body.keys THEN body.top_k ELSE JsonInt(10)
      IN  IF query.type # "str"
          THEN Rejected(500)    \* query.strip(): AttributeError
          ELSE IF Strip(query.str) = <<>>
          THEN Rejected(400)
          ELSE IF \/ top_k.type \notin {"int", "bool"}   \* isinstance(top_k, int)
                  \/ top_k.num < 1
                  \/ top_k.num > 10
          THEN Rejected(400)
          ELSE LET recommendations == Call(e, query.str, top_k.num)
               IN  IF recommendations.raised # {}
                   THEN [Rejected(500) EXCEPT !.called = TRUE]
                   ELSE [status |-> 200, called |-> TRUE,
                         count |-> Len(recommendations.recs),
                         recommendations |-> recommendations.recs]

\* one request to POST /recommend
recommend ==
    /\ pc = "ready"
    /\ \E body \in Bodies : \E answer \in {Answer(Engine, body)} :
          /\ response' = [body |-> body, status |-> answer.status,
                          called |-> answer.called, count |-> answer.count,
                          recommendations |-> answer.recommendations]
          /\ train_queries' =
                IF answer.called
                THEN TrainQueriesAfterBoost(train_queries, body.query.str)
                ELSE train_queries
    /\ pc' = "answered"
    /\ UNCHANGED <<train_rows, df, url_to_idx, normalized_to_actual,
                   assessment_training_patterns, matched_count, total_count,
                   vectorizer, argsort_ties, set_order, built, req, result,
                   threads>>

NextApi ==
    \/ _load_data
    \/ _build_url_index
    \/ LoadTrainingRow
    \/ TrainingSummary
    \/ _build_tfidf_index
    \/ recommend

SpecApi == Init /\ [][NextApi]_vars

-----------------------------------------------------------------------------
(* The feature extractor on its own *)

\* words of a query
MaxWords == 3

FeatureWords ==
    {<<"java">>, <<"Java">>, <<"script">>, <<"javascript">>, <<"js">>,
     <<"python">>, <<"team">>, <<"developer">>, <<"analyst">>, <<"work">>,
     <<"with">>, <<"soft">>, <<"skills">>, <<"5">>, <<"min">>, <<"minutes">>,
     <<"5", "min">>, <<"zzz">>}

\* the queries of at most n of these words, separated by single spaces
RECURSIVE FeatureQueries(_)
FeatureQueries(n) ==
    IF n = 0 THEN {<<>>}
    ELSE LET shorter == FeatureQueries(n - 1)
         IN  shorter \cup
             {(IF q = <<>> THEN <<>> ELSE q \o <<" ">>) \o w :
                 q \in shorter, w \in FeatureWords}

\* self._extract_query_features(query)
ExtractFeatures ==
    /\ pc = "init"
    /\ \E query \in FeatureQueries(MaxWords) :
          /\ req' = [query |-> query, top_k |-> 0]
          /\ result' = _extract_query_features(query)
    /\ pc' = "extracted"
    /\ UNCHANGED <<train_rows, df, url_to_idx, normalized_to_actual,
                   train_queries, assessment_training_patterns, matched_count,
                   total_count, vectorizer, argsort_ties, set_order, built,
                   threads, response>>

SpecFeatures == Init /\ [][ExtractFeatures]_vars

-----------------------------------------------------------------------------
(* A catalog larger than the candidate pool *)

\* rows of the large catalog beyond the size of the pool
PoolExcess == 3

\* the rows past the pool size are short, two rows declare no duration and
\* every other row is long
LargeRow(i) ==
    [name |-> "n" \o ToString(i),
     url |-> CanonicalPrefix \o <<"s" \o ToString(i), "/">>,
     test_type |-> JsonList(TypeCycle[((i - 1) % Len(TypeCycle)) + 1]),
     duration |-> IF i > PoolSize THEN {6}
                  ELSE IF i % 40 = 0 THEN NoDuration ELSE {60}]

LargeCatalog == [i \in 1..(PoolSize + PoolExcess) |-> LargeRow(i)]

\* data files on both sides of the pool size
PoolCatalogs == {LargeCatalog, GenCatalog(6)}

\* __init__: self.df = self._load_data(data_file), for these data files
_load_large_data ==
    /\ pc = "init"
    /\ \E data \in PoolCatalogs :
          df' = List([i \in 1..Len(data) |->
                        [data[i] EXCEPT !.test_type = LoadedTestType(@)]])
    /\ pc' = "index"
    /\ UNCHANGED <<train_rows, url_to_idx, normalized_to_actual, train_queries,
                   assessment_training_patterns, matched_count, total_count,
                   vectorizer, argsort_ties, set_order, built, req, result,
                   threads, response>>

NextPool ==
    \/ _load_large_data
    \/ _build_url_index
    \/ LoadTrainingRow
    \/ TrainingSummary
    \/ _build_tfidf_index
    \/ Recommend

SpecPool == Init /\ [][NextPool]_vars

-----------------------------------------------------------------------------
(* Properties *)

Served == pc = "served"

Names(recs) == {recs[p].name : p \in 1..Len(recs)}

RowOf(name) == CHOOSE i \in 1..Len(df) : df[i].name = name

RawSimilarity(rec) == result.similarities[RowOf(rec.name)]

TrainingKey(query) == Strip(Lower(query))

\* the query is a training key mapped to the assessment at this URL
ExactMatch(query, url) ==
    /\ TrainingKey(query) \in DOMAIN train_queries
    /\ _normalize_url(Strip(Lower(url)))
           \in NormalizedSet(train_queries[TrainingKey(query)])

\* some training query mapped to the assessment has Jaccard > 0.3 with the query
FuzzyMatch(query, url) ==
    \E t \in DOMAIN train_queries :
        /\ _normalize_url(Strip(Lower(url))) \in NormalizedSet(train_queries[t])
        /\ Less(Score(3, 10),
                Jaccard(SplitWords(TrainingKey(query), <<>>),
                        SplitWords(t, <<>>)))

MatchTier(query, url) ==
    IF ExactMatch(query, url) THEN 3
    ELSE IF FuzzyMatch(query, url) THEN 2 ELSE 1

\* position of x in s, Len(s) + 1 when absent
PosIn(s, x) ==
    IF \E p \in 1..Len(s) : s[p] = x
    THEN CHOOSE p \in 1..Len(s) : s[p] = x
    ELSE Len(s) + 1

BalancingApplies(features) ==
    \/ Cardinality(features.test_categories) > 1
    \/ features.soft_skills_required

\* C1: for a non-empty catalog, a non-empty query and top_k in 1..10 the call
\* returns at least min(5, catalog size) records.
C1_AtLeastMinFive ==
    (Served /\ req.query # <<>> /\ req.top_k \in 1..10 /\ Len(df) > 0)
        => Len(result.recs) >= Min2(5, Len(df))

\* C2: for a non-empty catalog and top_k in 1..10 the returned list is never
\* empty, also when the duration filter removed every candidate of the pool.
C2_NeverEmpty ==
    (Served /\ req.top_k \in 1..10 /\ Len(df) > 0) => Len(result.recs) >= 1

C2_Witness ==
    /\ Served
    /\ req.top_k \in 1..10
    /\ Len(result.pool) > 0
    /\ result.features.duration_max # {}
    /\ result.candidates = <<>>
    /\ Len(result.recs) >= 1

\* C3: whatever top_k is, the call returns at most 10 records.
C3_AtMostTen == Served => Len(result.recs) <= 10

C3_Witness ==
    /\ Served
    /\ req.top_k > 10
    /\ Len(result.candidates) > 10
    /\ Len(result.recs) = 10

\* C4: normalizing a normalized URL changes nothing, for every URL the
\* training log holds (the empty string included).
C4_NormalizeIdempotent ==
    \A i \in 1..Len(train_rows) :
        _normalize_url(_normalize_url(train_rows[i].Assessment_url))
            = _normalize_url(train_rows[i].Assessment_url)

\* the training index as pairs <<training query, normalized URL>>
TrainingPairs ==
    UNION {{<<t, _normalize_url(u)>> : u \in train_queries[t]} :
              t \in DOMAIN train_queries}

\* the training queries mapped to the assessment with this normalized URL
MappedQueries(pairs, norm_url) == {p[1] : p \in {q \in pairs : q[2] = norm_url}}

\* the word-set Jaccard similarities of the query's words with those queries
MappedSimilarities(pairs, norm_url, words) ==
    {Jaccard(words, SplitWords(t, <<>>)) :
        t \in {m \in MappedQueries(pairs, norm_url) :
                  words # {} /\ SplitWords(m, <<>>) # {}}}

\* MatchTier from the pairs of the training index and the query's words
TierOf(pairs, key, words, norm_url) ==
    IF key \in MappedQueries(pairs, norm_url) THEN 3
    ELSE IF \E s \in MappedSimilarities(pairs, norm_url, words) :
                Less(Score(3, 10), s)
         THEN 2 ELSE 1

\* the match tier of every catalog row for the request's query
Tiers ==
    IF DOMAIN train_queries = {} THEN [i \in 1..Len(df) |-> 1]
    ELSE LET pairs == TrainingPairs
             key == TrainingKey(req.query)
             words == SplitWords(key, <<>>)
         IN  List([i \in 1..Len(df) |->
                     TierOf(pairs, key, words,
                            _normalize_url(Strip(Lower(df[i].url))))])

\* C5 as stated: two assessments with the same base score, of any value in
\* [0, 1], are scored and ranked exact > fuzzy > none, strictly.
C5_BoostOrderAnyBase ==
    Served =>
        \A tier \in {Tiers} :
            \A i, j \in 1..Len(df) :
                (/\ result.similarities[i] = result.similarities[j]
                 /\ tier[i] > tier[j])
                    => /\ Less(result.boosted[j], result.boosted[i])
                       /\ PosIn(result.pool, i) < PosIn(result.pool, j)

\* C5 amended: two assessments with the same positive base score are scored
\* and ranked exact > fuzzy > none, strictly.
C5_BoostOrderPositiveBase ==
    Served =>
        \A tier \in {Tiers} :
            \A i, j \in 1..Len(df) :
                (/\ result.similarities[i] = result.similarities[j]
                 /\ result.similarities[i] > 0
                 /\ tier[i] > tier[j])
                    => /\ Less(result.boosted[j], result.boosted[i])
                       /\ PosIn(result.pool, i) < PosIn(result.pool, j)

C5_Witness ==
    /\ Served
    /\ \E tier \in {Tiers} :
           \E i, j, k \in 1..Len(df) :
              /\ tier[i] = 3
              /\ tier[j] = 2
              /\ tier[k] = 1
              /\ result.similarities[i] > 0
              /\ result.similarities[i] = result.similarities[j]
              /\ result.similarities[j] = result.similarities[k]
              /\ PosIn(result.pool, i) < PosIn(result.pool, j)
              /\ PosIn(result.pool, j) < PosIn(result.pool, k)

\* C6: a candidate of the pool with declared duration d is removed if and
\* only if a max duration m was parsed and d > 1.2 * m; a candidate with
\* unknown duration is never removed.
C6_DurationRule ==
    Served =>
        \A p \in 1..Len(result.pool) :
            LET row == df[result.pool[p]]
                removed == row.name \notin Names(result.candidates)
            IN  IF row.duration = NoDuration
                THEN ~removed
                ELSE removed <=>
                        \E m \in result.features.duration_max :
                            \E d \in row.duration : 5 * d > 6 * m

\* C7: with 2 or more required categories and top_k in 1..10, every required
\* category that some candidate carries is carried by some returned record.
C7_BalancingComplete ==
    (/\ Served
     /\ req.top_k \in 1..10
     /\ Cardinality(result.features.test_categories) >= 2)
        => \A c \in result.features.test_categories :
               (\E p \in 1..Len(result.candidates) :
                    c \in Range(result.candidates[p].test_type))
                   => \E p \in 1..Len(result.recs) :
                          c \in Range(result.recs[p].test_type)

\* for every returned record: is it mapped to the request's query
MappedRecs ==
    List([p \in 1..Len(result.recs) |->
            ExactMatch(req.query, result.recs[p].url)])

\* the raw similarity of every returned record
RawRecs ==
    List([p \in 1..Len(result.recs) |-> RawSimilarity(result.recs[p])])

BuiltEngine ==
    [df |-> built[1], train_queries |-> built[4], vectorizer |-> built[6],
     argsort_ties |-> argsort_ties, set_order |-> set_order]

\* C9: while requests are served, in any interleaving, the catalog store, the
\* URL index, both training mappings and the vector space stay as built, and
\* every finished request returned what it returns alone on the engine as
\* built.
C9_EngineReadOnly ==
    pc = "ready" =>
        /\ engine = built
        /\ \A t \in ThreadIds :
               threads[t].pc = "done" =>
                   threads[t].result =
                       get_recommendations(BuiltEngine, threads[t].query,
                                           threads[t].top_k)

C9_Witness ==
    /\ pc = "ready"
    /\ \A t \in ThreadIds : threads[t].pc = "done"
    /\ \E t \in ThreadIds : threads[t].overlapped
    /\ threads[1].query # threads[2].query

Carrying(recs, code) ==
    {p \in 1..Len(recs) : code \in Range(recs[p].test_type)}

\* C11: for a query with a collaboration keyword (soft skills required, P a
\* required category) and top_k = 10, at least 2 returned records carry P
\* whenever at least 2 candidates carry P.
C11_TwoPersonality ==
    (/\ Served
     /\ req.top_k = 10
     /\ result.features.soft_skills_required
     /\ "P" \in result.features.test_categories
     /\ Cardinality(Carrying(result.candidates, "P")) >= 2)
        => Cardinality(Carrying(result.recs, "P")) >= 2

\* C12: for every existing training log, a log with zero rows included, the
\* construction of the engine does not end in an exception.
C12_TrainingLogNonFatal == pc # "ZeroDivisionError"

\* the engine is built
Built == pc \in {"ready", "served"}

\* the key of a stored assessment: its catalog URL, lower-cased
Key(row) == Lower(row.url)

\* C13: once the engine is built, no two stored assessments have the same key.
C13_KeyUnique ==
    Built => \A i, j \in 1..Len(df) : Key(df[i]) = Key(df[j]) => i = j

\* C14: every stored assessment, and so every returned record, has a
\* non-empty test_type list (a missing, empty or non-list test_type having
\* been replaced by a default).
C14_TestTypeNonEmpty ==
    /\ Built => \A i \in 1..Len(df) : df[i].test_type # <<>>
    /\ Served => \A p \in 1..Len(result.recs) : result.recs[p].test_type # <<>>

\* C15: the endpoint answers 400 without calling the engine when the body has
\* no query field, when the query is empty or blank, or when top_k is not an
\* integer in 1..10; it answers 200 with count = number of recommendations to
\* a valid request, and 500 to every other failure.
C15_EndpointValidation ==
    pc = "answered" =>
        LET body == response.body
            no_query == \/ body.json = "null"
                        \/ body.json = "object" /\ "query" \notin body.keys
            has_text == /\ body.json = "object"
                        /\ "query" \in body.keys
                        /\ body.query.type = "str"
            blank == has_text /\ Strip(body.query.str) = <<>>
            top_k_ok == \/ "top_k" \notin body.keys
                        \/ body.top_k.type = "int" /\ body.top_k.num \in 1..10
            bad_top_k == has_text /\ ~blank /\ ~top_k_ok
            valid == has_text /\ ~blank /\ top_k_ok
        IN  /\ (no_query \/ blank \/ bad_top_k)
                => response.status = 400 /\ ~response.called
            /\ valid => /\ response.status = 200
                        /\ response.called
                        /\ response.count = Len(response.recommendations)
            /\ ~(no_query \/ blank \/ bad_top_k \/ valid)
                => response.status = 500

\* C16: when fewer than 5 results remain after filtering and balancing, the
\* list is topped up by score from the pool as it was before the duration
\* filter, so it holds at least min(5, top_k) records, or the whole pool when
\* that is smaller.
C16_BackfillFromPool ==
    (Served /\ req.top_k \in 1..10 /\ Len(result.balanced) < MinResults)
        => Len(result.recs)
               >= Min2(Min2(MinResults, req.top_k), Len(result.pool))

\* the catalog rows of the returned records
RowsOfRecs == List([p \in 1..Len(result.recs) |-> RowOf(result.recs[p].name)])

SameScore(a, b) == a.num * b.den = b.num * a.den

\* the three-tier reference: is `boosted` its value for the base score
IsReferenceBoost(pairs, key, norm_url, base, boosted) ==
    \A sims \in {MappedSimilarities(pairs, norm_url, SplitWords(key, <<>>))} :
        IF key \in MappedQueries(pairs, norm_url)
        THEN SameScore(boosted, Score(base * 1000, 1))
        ELSE IF \E s \in sims : Less(Score(3, 10), s)
        THEN \E s \in sims :
                 /\ \A o \in sims : ~Less(s, o)
                 /\ SameScore(boosted,
                              Score(base * (s.den + 100 * s.num), s.den))
        ELSE SameScore(boosted, Score(base, 1))

\* C18: the boosted score of every assessment is base * 1000 when the query
\* is a training key mapped to it, else base * (1 + 100 s) when the maximum
\* Jaccard similarity s over the training queries mapped to it is strictly
\* above 0.3, else base.
C18_ThreeTierBoost ==
    Served =>
        \A pairs \in {TrainingPairs} :
            \A i \in 1..Len(df) :
                IsReferenceBoost(pairs, TrainingKey(req.query),
                                 _normalize_url(df[i].url),
                                 result.similarities[i], result.boosted[i])

\* per catalog row: the Jaccard similarities of the request's query with the
\* training queries mapped to the row
RowSimilarities ==
    LET pairs == TrainingPairs
        words == SplitWords(TrainingKey(req.query), <<>>)
    IN  List([i \in 1..Len(df) |->
                MappedSimilarities(pairs, _normalize_url(df[i].url), words)])

C18_Witness ==
    /\ Served
    /\ TrainingKey(req.query) \in DOMAIN train_queries
    /\ \A i \in 1..Len(df) : result.similarities[i] > 0
    /\ \E sims \in {RowSimilarities} : \E pairs \in {TrainingPairs} :
          \E i, j, k \in 1..Len(df) :
             /\ TrainingKey(req.query)
                    \in MappedQueries(pairs, _normalize_url(df[i].url))
             /\ TrainingKey(req.query)
                    \notin MappedQueries(pairs, _normalize_url(df[j].url))
             /\ \E s \in sims[j] : Less(Score(3, 10), s)
             /\ sims[k] = {Score(3, 10)}
             /\ result.boosted[k] = Score(result.similarities[k], 1)

\* d[k] of a defaultdict(set) read without inserting: a missing key is empty
SetAt(d, k) == IF k \in DOMAIN d THEN d[k] ELSE {}

\* C19: whatever rows of a training log were loaded, and afterwards, the two
\* training mappings are exact inverses: an assessment key is among the keys
\* of a query if and only if the query is among the queries of the key.
C19_MappingsInverse ==
    \A q \in DOMAIN train_queries \cup
              UNION {assessment_training_patterns[k] :
                        k \in DOMAIN assessment_training_patterns} :
        \A k \in DOMAIN assessment_training_patterns \cup SetAt(train_queries, q) :
            k \in SetAt(train_queries, q)
                <=> q \in SetAt(assessment_training_patterns, k)

C19_Witness ==
    /\ pc = "ready"
    /\ \E q \in DOMAIN train_queries : Cardinality(train_queries[q]) >= 2
    /\ \E k \in DOMAIN assessment_training_patterns :
           Cardinality(assessment_training_patterns[k]) >= 2
    /\ matched_count < total_count

\* the assessment keys of the catalog whose normalized URL is that of u
CatalogMatches(u) ==
    {Key(df[i]) : i \in {j \in 1..Len(df) :
        _normalize_url(Key(df[j])) = _normalize_url(u)}}

\* the step of the loader that reads one training row
ReadsTrainingRow ==
    pc = "training" /\ train_rows # <<>> /\ train_rows' = Tail(train_rows)

\* C20: a training row (q, u) is stored, under q and an assessment key with
\* the normalized URL of u, and counted as matched, if and only if the
\* normalized form of u is the normalized URL of some catalog entry; otherwise
\* it is dropped: nothing is stored or counted and the loader goes on. Every
\* key held in the training index is a key of the catalog, and the rows read
\* are the matched ones plus the dropped ones.
C20_StoredIffCatalogMatch ==
    /\ [][ReadsTrainingRow =>
            LET row == Head(train_rows)
                q == Strip(Lower(row.Query))
                matches == CatalogMatches(row.Assessment_url)
            IN  /\ pc' = "training"
                /\ IF matches # {}
                   THEN /\ matched_count' = matched_count + 1
                        /\ \E k \in matches :
                              /\ train_queries' =
                                    DictSet(train_queries, q,
                                            SetAt(train_queries, q) \cup {k})
                              /\ assessment_training_patterns' =
                                    DictSet(assessment_training_patterns, k,
                                            SetAt(assessment_training_patterns,
                                                  k) \cup {q})
                   ELSE UNCHANGED <<train_queries,
                                    assessment_training_patterns,
                                    matched_count>>]_vars
    /\ [](/\ \A q \in DOMAIN train_queries :
                 train_queries[q] \subseteq {Key(df[i]) : i \in 1..Len(df)}
          /\ DOMAIN assessment_training_patterns
                 \subseteq {Key(df[i]) : i \in 1..Len(df)}
          /\ matched_count + Len(train_rows) <= total_count)

C20_Witness ==
    /\ pc = "tfidf"
    /\ matched_count >= 2
    /\ total_count - matched_count >= 2

\* C21: the candidate pool is the 100 assessments with the highest boosted
\* score (all of them when the catalog has fewer), in non-increasing order of
\* boosted score; the candidates are the pool members the duration filter
\* keeps, in pool order; and unless no pool member survives the filter (the
\* last-resort tier), every returned record is an assessment of the pool.
C21_PoolIsTopHundred ==
    Served =>
        \A pool \in {result.pool} : \A boosted \in {result.boosted} :
            /\ Len(pool) = Min2(PoolSize, Len(df))
            /\ Range(pool) \subseteq 1..Len(df)
            /\ Cardinality(Range(pool)) = Len(pool)
            /\ \A p \in 1..(Len(pool) - 1) :
                   ~Less(boosted[pool[p]], boosted[pool[p + 1]])
            /\ \A i \in (1..Len(df)) \ Range(pool) :
                   ~Less(boosted[pool[Len(pool)]], boosted[i])
            /\ \A kept \in {FilterSeq(pool,
                                {i \in 1..Len(df) :
                                    ~DurationExcluded(
                                         df[i], result.features.duration_max)})} :
                   /\ Len(result.candidates) = Len(kept)
                   /\ \A p \in 1..Len(kept) :
                          result.candidates[p].name = df[kept[p]].name
            /\ result.candidates # <<>> =>
                   \A p \in 1..Len(result.recs) :
                       \E i \in Range(pool) : result.recs[p].name = df[i].name

C21_Witness ==
    /\ Served
    /\ Len(df) > PoolSize
    /\ result.features.duration_max # {}
    /\ result.candidates # <<>>
    /\ Len(result.candidates) < MinResults
    /\ Len(result.recs) = Len(result.candidates)
    /\ \E p \in 1..Len(result.pool) : result.pool[p] > PoolSize
    /\ \E i \in (1..Len(df)) \ Range(result.pool) :
           ~DurationExcluded(df[i], result.features.duration_max)

\* the candidates whose test types contain P and do not contain K
PBucket(candidates) ==
    LET personality(r) ==
            "P" \in Range(r.test_type) /\ "K" \notin Range(r.test_type)
    IN  SelectSeq(candidates, personality)

\* C22: when soft skills are required and P is a required category, the
\* first min(3, size of the P bucket, top_k div 3) entries of the balancer's
\* output are the highest-scored candidates of the P bucket, in score order.
C22_PReservation ==
    (/\ Served
     /\ result.features.soft_skills_required
     /\ "P" \in result.features.test_categories)
        => \A P \in {PBucket(result.candidates)} :
              \A p \in 1..Min2(Min2(3, Len(P)), req.top_k \div 3) :
                  /\ p <= Len(result.balanced)
                  /\ result.balanced[p] = P[p]

\* the records of a list that a fill loop can append: their URL is not in
\* used and no earlier record of the list has it
Unused(seq, used) ==
    LET idx == [p \in 1..Len(seq) |-> p]
        fresh(p) == /\ seq[p].url \notin used
                    /\ \A q \in 1..(p - 1) : seq[q].url # seq[p].url
        kept == SelectSeq(idx, fresh)
    IN  [p \in 1..Len(kept) |-> seq[kept[p]]]

\* the list after the category loop: each category in turn contributes the
\* first `slots` unused records of its bucket
RECURSIVE SlotFills(_, _, _, _)
SlotFills(out, candidates, cats, slots) ==
    IF cats = <<>> THEN out
    ELSE SlotFills(out \o PyTake(Unused(by_category(candidates, Head(cats)),
                                        Urls(out)), slots),
                   candidates, Tail(cats), slots)

\* the P records reserved for a soft-skill request
Reserved(features, candidates, top_k) ==
    IF features.soft_skills_required /\ "P" \in features.test_categories
    THEN LET P == PBucket(candidates)
         IN  Unused(PyTake(P, Min2(Min2(3, Len(P)), top_k \div 3)), {})
    ELSE <<>>

\* the required categories the loop serves, in the order it meets them
LoopCategories(features) ==
    FilterSeq(set_order,
              {c \in features.test_categories :
                  ~(c = "P" /\ features.soft_skills_required)})

\* C23: for each required category other than a P served by the soft-skill
\* reservation, the balancer adds the first max(2, remaining div number of
\* required categories) records of the category's bucket whose URL is not
\* used yet (all of them when the bucket has fewer), in score order, where
\* remaining is top_k minus the number of P records reserved: the balancer's
\* output starts with the reserved records followed by these, as far as
\* top_k lets it.
C23_SlotBudget ==
    (Served /\ BalancingApplies(result.features))
        => \A reserved \in {Reserved(result.features, result.candidates,
                                     req.top_k)} :
           \A slots \in {Max2(2, (req.top_k - Len(reserved))
                                    \div Cardinality(
                                             result.features.test_categories))} :
           \A filled \in {PyTake(SlotFills(reserved, result.candidates,
                                           LoopCategories(result.features),
                                           slots),
                                 req.top_k)} :
              /\ Len(filled) <= Len(result.balanced)
              /\ \A p \in 1..Len(filled) : result.balanced[p] = filled[p]

C23_Witness ==
    /\ Served
    /\ BalancingApplies(result.features)
    /\ Len(LoopCategories(result.features)) >= 2
    /\ \E reserved \in {Reserved(result.features, result.candidates,
                                  req.top_k)} :
       \E slots \in {Max2(2, (req.top_k - Len(reserved))
                                \div Cardinality(
                                         result.features.test_categories))} :
          /\ Len(reserved) >= 2
          /\ slots > 2
          /\ \E c \in Range(LoopCategories(result.features)) :
                 Len(by_category(result.candidates, c)) > slots
          /\ Len(SlotFills(reserved, result.candidates,
                           LoopCategories(result.features), slots))
                 \in (Len(reserved) + slots + 1)..req.top_k

\* C24: when balancing applies and top_k >= 1, the balancer's output holds
\* only records of its candidate list, no two of them with the same URL, and
\* its length is min(top_k, number of distinct URLs among the candidates).
C24_BalancedDistinct ==
    (Served /\ BalancingApplies(result.features) /\ req.top_k >= 1)
        => /\ Range(result.balanced) \subseteq Range(result.candidates)
           /\ Cardinality(Urls(result.balanced)) = Len(result.balanced)
           /\ Len(result.balanced)
                  = Min2(req.top_k, Cardinality(Urls(result.candidates)))

C24_Witness ==
    /\ Served
    /\ BalancingApplies(result.features)
    /\ Cardinality(result.features.test_categories) >= 2
    /\ Cardinality(Urls(result.candidates)) < Len(result.candidates)
    /\ req.top_k = Len(result.candidates)
    /\ Len(result.balanced) = Cardinality(Urls(result.candidates))
    /\ result.balanced # PyTake(result.candidates, Len(result.balanced))

\* the query has no cue: it is made of words that are no cue and part of
\* none, and of at most one kind of word that is part of a cue (a phrase, the
\* duration pattern, "java script") but none on its own
NoCue(query) ==
    LET NeutralWords == {<<"zzz">>}
        PartialWords ==
            {<<"script">>, <<"work">>, <<"with">>, <<"soft">>, <<"skills">>,
             <<"5">>, <<"min">>, <<"minutes">>}
    IN  \E w \in PartialWords :
            SplitWords(Lower(query), <<>>) \subseteq NeutralWords \cup {w}

\* C25: in every feature set the extractor produces, soft_skills_required is
\* true if and only if P is a required category, and a query with no cue
\* yields no technology, no category, no duration limit and
\* soft_skills_required = false.
C25_FeaturesConsistent ==
    pc = "extracted" =>
        /\ result.soft_skills_required <=> "P" \in result.test_categories
        /\ NoCue(req.query) =>
               /\ result.technologies = <<>>
               /\ result.test_categories = {}
               /\ result.duration_max = {}
               /\ ~result.soft_skills_required

C25_Witness ==
    /\ pc = "extracted"
    /\ NoCue(req.query)
    /\ SplitWords(Lower(req.query), <<>>) = {<<"zzz">>, <<"minutes">>}
    /\ result.technologies = <<>>
    /\ result.test_categories = {}
    /\ result.duration_max = {}
    /\ ~result.soft_skills_required


\* C26: _normalize_url never fails and maps the empty string to the canonical
\* template with an empty slug; that value is the normalized URL of no catalog
\* entry, so the loader drops every training row whose URL is empty after
\* strip(): it stores nothing for it and does not count it as matched.
C26_EmptyUrlDropped ==
    /\ [](/\ _normalize_url(<<>>) = CanonicalPrefix \o <<"/">>
          /\ \A i \in 1..Len(df) :
                 _normalize_url(Key(df[i])) # _normalize_url(<<>>))
    /\ [][(ReadsTrainingRow /\ Strip(Head(train_rows).Assessment_url) = <<>>)
            => UNCHANGED <<train_queries, assessment_training_patterns,
                           matched_count>>]_vars

\* C27: for top_k in 1..4 with at least 5 candidates after the duration
\* filter, the call returns exactly the 5 first candidates (the highest
\* scored ones, in score order), whatever the balancer computed; and for
\* every top_k the result has at most min(10, max(5, top_k)) records.
C27_FiveForSmallTopK ==
    Served =>
        /\ (req.top_k \in 1..4 /\ Len(result.candidates) >= MinResults)
               => result.recs = PyTake(result.candidates, MinResults)
        /\ Len(result.recs) <= Min2(HardCap, Max2(MinResults, req.top_k))


C29_BoostMultiplicative ==
    Served =>
        \A pool \in {result.pool} : \A boosted \in {result.boosted} :
            /\ \A i \in 1..Len(df) :
                  /\ result.similarities[i] >= 0
                  /\ ~Less(boosted[i], Score(result.similarities[i], 1))
                  /\ result.similarities[i] = 0 => boosted[i].num = 0
            /\ \A p \in 1..Len(pool) : \A q \in (p + 1)..Len(pool) :
                  boosted[pool[p]].num = 0 => boosted[pool[q]].num = 0

C29_Witness ==
    /\ Served
    /\ \A tier \in {Tiers} :
          \E p, q \in 1..Len(result.pool) :
              /\ p < q
              /\ result.similarities[result.pool[q]] = 0
              /\ tier[result.pool[q]] > 1
              /\ result.boosted[result.pool[p]].num > 0
              /\ tier[result.pool[p]] = 1

\* C30: for top_k in 1..10 the set of records a call returns is the same for
\* every order in which the balancer can iterate the required categories;
\* for top_k in 5..10 the reserved P records and the records of the category
\* loop are together at most top_k, so the cut to top_k keeps them all; and
\* for top_k in 1..4 the call returns the first 5 candidates, in score order,
\* whenever there is a candidate.
C30_SetOrderFree ==
    (Served /\ req.top_k \in 1..10)
        => /\ \A order \in SetOrders :
                 Range(Selected([Engine EXCEPT !.set_order = order], result,
                                req.top_k).recs)
                     = Range(result.recs)
           /\ (req.top_k >= MinResults /\ BalancingApplies(result.features))
                  => \A reserved \in {Reserved(result.features,
                                               result.candidates, req.top_k)} :
                        Len(SlotFills(
                                reserved, result.candidates,
                                LoopCategories(result.features),
                                Max2(2, (req.top_k - Len(reserved))
                                           \div Cardinality(
                                                result.features.test_categories))))
                            <= req.top_k
           /\ (req.top_k < MinResults /\ result.candidates # <<>>)
                  => result.recs = PyTake(result.candidates, MinResults)


====
